---- MODULE Spec2Model ----
(***************************************************************************)
(* RandomLCG (src/src/lab/util/RandomLCG.js): a linear congruential        *)
(* generator  X' = (a X + c) mod m  with m = 2^32, and the draws derived   *)
(* from it (nextInt, nextFloat, nextRange, randomInts).                    *)
(*                                                                         *)
(* Javascript numbers are doubles.  Every integer the generator makes is   *)
(* below 2^53 (the constructor asserts it), so double arithmetic on them   *)
(* is exact integer arithmetic.  TLC's integers are 32 bits wide, so the   *)
(* model keeps such an integer as its little-endian sequence of base-256   *)
(* digits without leading zeros (0 is << >>) and does the arithmetic of    *)
(* the code digit by digit.                                                *)
(***************************************************************************)
EXTENDS Integers, Sequences, FiniteSets, TLC

VARIABLES
    seed,       \* this.seed_ of the engine under test (a Javascript number)
    alive,      \* TRUE when the constructor returned (it did not throw)
    ctorArg,    \* the argument the constructor was called with
    steps,      \* calls made on the engine so far
    last,       \* the last call: operation, argument, seed before, outcome
    engines,    \* two independent engines: seed_, and how each was made
    script,     \* the calls both engines are driven with
    outs,       \* per engine, the outcomes of the calls it has made
    walk,       \* a reduced-modulus generator being iterated
    comp        \* the map "2^lev calls of nextInt" as s |-> A*s + C mod m

vars == <<seed, alive, ctorArg, steps, last, engines, script, outs, walk, comp>>

----------------------------------------------------------------------------
(* Exact non-negative integers of Javascript, as base-256 digits.           *)
(*                                                                          *)
(* Javascript evaluates the arguments of a call before the call.  Eval and  *)
(* Eval2 do the same for an operator: F is applied to the values of its     *)
(* arguments, each worked out once.                                         *)

Eval(v, F(_)) == CHOOSE r \in {F(x) : x \in {v}} : TRUE

Eval2(v, w, F(_, _)) == CHOOSE r \in {F(p[1], p[2]) : p \in {<<v, w>>}} : TRUE

Base == 16 * 16

Zeros(k) == [i \in 1..k |-> 0]

Digit(x, i) == IF i <= Len(x) THEN x[i] ELSE 0

\* the place of the highest digit of x that is not 0, looking from place i down
RECURSIVE TopDigit(_, _)
TopDigit(x, i) ==
    IF i = 0 THEN 0 ELSE IF x[i] # 0 THEN i ELSE TopDigit(x, i - 1)

\* x without its leading zero digits
Norm(x) == Eval(x, LAMBDA u : SubSeq(u, 1, TopDigit(u, Len(u))))

RECURSIVE FromInt(_)
FromInt(i) == IF i = 0 THEN << >> ELSE <<i % Base>> \o FromInt(i \div Base)

RECURSIVE AddFrom(_, _, _, _)
AddFrom(x, y, i, carry) ==
    IF i > Len(x) /\ i > Len(y)
    THEN (IF carry = 0 THEN << >> ELSE <<carry>>)
    ELSE Eval(Digit(x, i) + Digit(y, i) + carry, LAMBDA t :
             <<t % Base>> \o AddFrom(x, y, i + 1, t \div Base))

Add(x, y) == Eval2(x, y, LAMBDA u, v : Norm(AddFrom(u, v, 1, 0)))

RECURSIVE SubFrom(_, _, _, _)
SubFrom(x, y, i, borrow) ==
    IF i > Len(x) THEN << >>
    ELSE Eval(Digit(x, i) - Digit(y, i) - borrow, LAMBDA t :
             <<t % Base>> \o SubFrom(x, y, i + 1, IF t < 0 THEN 1 ELSE 0))

\* x - y for x >= y
Sub(x, y) == Eval2(x, y, LAMBDA u, v : Norm(SubFrom(u, v, 1, 0)))

RECURSIVE MulDigitFrom(_, _, _, _)
MulDigitFrom(x, d, i, carry) ==
    IF i > Len(x)
    THEN (IF carry = 0 THEN << >> ELSE <<carry>>)
    ELSE Eval(x[i] * d + carry, LAMBDA t :
             <<t % Base>> \o MulDigitFrom(x, d, i + 1, t \div Base))

\* x * Base^k
Shift(x, k) == Eval(x, LAMBDA u : IF u = << >> \/ k = 0 THEN u ELSE Zeros(k) \o u)

RECURSIVE MulFrom(_, _, _)
MulFrom(x, y, j) ==
    IF j > Len(y) THEN << >>
    ELSE Add(Shift(Norm(MulDigitFrom(x, y[j], 1, 0)), j - 1), MulFrom(x, y, j + 1))

Mul(x, y) == Eval2(x, y, LAMBDA u, v : MulFrom(u, v, 1))

\* floor(x / Base^k)
Drop(x, k) ==
    Eval(x, LAMBDA u : IF Len(u) <= k THEN << >> ELSE SubSeq(u, k + 1, Len(u)))

\* x mod Base^k
Take(x, k) ==
    Eval(x, LAMBDA u : Norm(IF Len(u) <= k THEN u ELSE SubSeq(u, 1, k)))

RECURSIVE LessFrom(_, _, _)
LessFrom(x, y, i) ==
    IF i = 0 THEN FALSE
    ELSE IF x[i] # y[i] THEN x[i] < y[i]
    ELSE LessFrom(x, y, i - 1)

Less(x, y) ==
    Eval2(x, y, LAMBDA u, v :
        IF Len(u) # Len(v) THEN Len(u) < Len(v) ELSE LessFrom(u, v, Len(u)))

\* the value of x when it fits TLC's integers (x < 2^31)
RECURSIVE ToIntFrom(_, _)
ToIntFrom(x, i) == IF i > Len(x) THEN 0 ELSE x[i] + Base * ToIntFrom(x, i + 1)

ToInt(x) == Eval(x, LAMBDA u : ToIntFrom(u, 1))

\* the number of binary digits of a digit d
RECURSIVE BitsOf(_)
BitsOf(d) == IF d = 0 THEN 0 ELSE 1 + BitsOf(d \div 2)

\* the number of binary digits of x
BitLen(x) ==
    Eval(x, LAMBDA u :
        IF u = << >> THEN 0 ELSE 8 * (Len(u) - 1) + BitsOf(u[Len(u)]))

\* 2^k
Pow2(k) == Shift(FromInt(2 ^ (k % 8)), k \div 8)

\* floor(x / 2^k)
DivPow2(x, k) == Drop(Mul(x, FromInt(2 ^ (8 - (k % 8)))), k \div 8 + 1)

IsNatDigits(x) ==
    /\ x \in Seq(0..(Base - 1))
    /\ (x # << >> => x[Len(x)] # 0)

----------------------------------------------------------------------------
(* Javascript number values: a finite number is sign, integer part of the   *)
(* magnitude and whether the magnitude has a fractional part of one half;   *)
(* NaN, the infinities and the missing argument are values of their own.    *)

Fin(neg, mag, half) == [kind |-> "fin", neg |-> neg, mag |-> mag, half |-> half]

IntNum(mag) == Fin(FALSE, mag, FALSE)

NaN == [kind |-> "nan", neg |-> FALSE, mag |-> << >>, half |-> FALSE]

Inf(neg) == [kind |-> "inf", neg |-> neg, mag |-> << >>, half |-> FALSE]

Undefined == [kind |-> "undef", neg |-> FALSE, mag |-> << >>, half |-> FALSE]

IsFinite(x) == x.kind = "fin"

MathAbs(x) == IF x.kind = "nan" THEN x ELSE [x EXCEPT !.neg = FALSE]

MathFloor(x) ==
    IF x.kind # "fin" \/ ~x.half THEN x
    ELSE IF x.neg THEN Fin(TRUE, Add(x.mag, <<1>>), FALSE)
    ELSE Fin(FALSE, x.mag, FALSE)

\* the 'modulus', 0x100000000
m == Shift(<<1>>, 4)

mDigits == Len(m) - 1

\* the 'multiplier'
a == 1664525

\* the 'increment'
c == 1013904223

aNum == FromInt(a)

cNum == FromInt(c)

\* Math.pow(2, 53)
Pow2_53 == Shift(FromInt(32), 6)

\* the bits of a double's significand
SigBits == 53

\* the natural number x as a double holds it: x itself up to 53 binary
\* digits, else the nearest multiple of 2^k, k = BitLen(x) - 53, a tie going
\* to the even significand
RoundDouble(x) ==
    Eval(x, LAMBDA u :
        IF BitLen(u) <= SigBits THEN u
        ELSE Eval(BitLen(u) - SigBits, LAMBDA k :
                 Eval(DivPow2(u, k), LAMBDA q :
                     Eval(Sub(u, Mul(q, Pow2(k))), LAMBDA rem :
                         IF \/ Less(Pow2(k - 1), rem)
                            \/ rem = Pow2(k - 1) /\ q[1] % 2 = 1
                         THEN Mul(Add(q, <<1>>), Pow2(k))
                         ELSE Mul(q, Pow2(k))))))

\* Math.floor((raw / m) * n) for an integer n >= 1: the division by the
\* power of two m is exact, the product is rounded to a double, and so it
\* is the double of raw * n, divided by m
FloorScaled(raw, n) == ToInt(Drop(RoundDouble(Mul(raw, FromInt(n))), mDigits))

\* x % RandomLCG.m
RemM(x) ==
    IF x.kind # "fin" THEN NaN
    ELSE LET low == Take(x.mag, mDigits)
         IN  Fin(x.neg /\ (low # << >> \/ x.half), low, x.half)

\* x < 0
Lt0(x) ==
    CASE x.kind = "fin" -> x.neg /\ (x.mag # << >> \/ x.half)
      [] x.kind = "inf" -> x.neg
      [] OTHER -> FALSE

\* x >= RandomLCG.m
GeM(x) ==
    CASE x.kind = "fin" -> ~x.neg /\ ~Less(x.mag, m)
      [] x.kind = "inf" -> ~x.neg
      [] OTHER -> FALSE

\* x != Math.floor(x)
NeFloor(x) ==
    CASE x.kind = "fin" -> x.half
      [] x.kind = "inf" -> FALSE
      [] OTHER -> TRUE

Ok == "ok"

None == "none"

\* RandomLCG.checkSeed: the error it throws, or Ok
checkSeed(x) ==
    IF Lt0(x) THEN "random seed must be 0 or greater"
    ELSE IF GeM(x) THEN "random seed must be less than m"
    ELSE IF NeFloor(x) THEN "random seed must be an integer"
    ELSE Ok

\* (RandomLCG.m - 1) * RandomLCG.a + RandomLCG.c < Math.pow(2, 53)
NumericSafe == Less(Add(Mul(Sub(m, <<1>>), aNum), cNum), Pow2_53)

\* mutant of RandomLCG: the seed is not made non-negative (no Math.abs)
RandomLCGNoAbs(arg, now) ==
    LET s0  == IF arg.kind = "undef" THEN now ELSE arg
        s   == RemM(MathFloor(s0))
        chk == checkSeed(s)
    IN  [seed |-> s,
         err  |-> IF chk # Ok THEN chk
                  ELSE IF ~NumericSafe THEN "Assertion failed"
                  ELSE Ok]

\* new RandomLCG(arg), with goog.now() = now: this.seed_ and the error thrown
RandomLCG(arg, now) ==
    LET s0  == IF arg.kind = "undef" THEN now ELSE arg
        s   == RemM(MathFloor(MathAbs(s0)))
        chk == checkSeed(s)
    IN  [seed |-> s,
         err  |-> IF chk # Ok THEN chk
                  ELSE IF ~NumericSafe THEN "Assertion failed"
                  ELSE Ok]

\* mutant of nextInt_: the increment is left out (r = this.seed_ * a)
nextInt_NoIncrement(s) ==
    Eval(Mul(s.mag, aNum), LAMBDA r :
        Eval(IntNum(Sub(r, Mul(Drop(r, mDigits), m))), LAMBDA new :
            [seed |-> new, ret |-> new, err |-> checkSeed(new)]))

\* this.seed_ = r - Math.floor(r/m)*m  with  r = this.seed_ * a + c
nextInt_(s) ==
    Eval(Add(Mul(s.mag, aNum), cNum), LAMBDA r :
        Eval(IntNum(Sub(r, Mul(Drop(r, mDigits), m))), LAMBDA new :
            [seed |-> new, ret |-> new, err |-> checkSeed(new)]))

nextInt(s) ==
    Eval(nextInt_(s), LAMBDA x :
        [seed |-> x.seed, ret |-> x.ret, err |-> x.err, draws |-> <<0>>])

\* x / (RandomLCG.m - 1), kept as the exact fraction
nextFloat(s) ==
    Eval(nextInt_(s), LAMBDA x :
        [seed |-> x.seed, ret |-> [num |-> x.ret.mag, den |-> Sub(m, <<1>>)],
         err |-> x.err, draws |-> <<0>>])

\* mutant of nextRange_: the draw is made before n is checked
nextRange_DrawFirst(s, n) ==
    Eval(nextInt_(s), LAMBDA x :
        IF n <= 0
        THEN [seed |-> x.seed, ret |-> None, err |-> "n must be positive"]
        ELSE [seed |-> x.seed,
              ret  |-> FloorScaled(x.ret.mag, n),
              err  |-> x.err])

\* Math.floor((nextInt_() / m) * n), computed in doubles
nextRange_(s, n) ==
    IF n <= 0
    THEN [seed |-> s, ret |-> None, err |-> "n must be positive"]
    ELSE Eval(nextInt_(s), LAMBDA x :
             [seed |-> x.seed,
              ret  |-> FloorScaled(x.ret.mag, n),
              err  |-> x.err])

nextRange(s, n) ==
    Eval(nextRange_(s, n), LAMBDA x :
        [seed |-> x.seed, ret |-> x.ret, err |-> x.err,
         draws |-> IF n <= 0 THEN << >> ELSE <<n>>])

\* the inner for loop of randomInts: the (1-based) place of the k'th entry
\* of src that is not -1, or 0 when the loop ends without a break
RECURSIVE FindKth(_, _, _, _)
FindKth(src, k, j, srcCount) ==
    IF j > Len(src) THEN 0
    ELSE IF src[j] < 0 THEN FindKth(src, k, j + 1, srcCount)
    ELSE IF srcCount = k THEN j
    ELSE FindKth(src, k, j + 1, srcCount + 1)

\* mutant of MoveKth: the entry taken from src is not marked as taken
MoveKthNoMark(set, src, setCount, j) ==
    IF j = 0 THEN [set |-> set, src |-> src, setCount |-> setCount]
    ELSE [set |-> [set EXCEPT ![setCount + 1] = src[j]],
          src |-> src,
          setCount |-> setCount + 1]

\* a pass of the do-while body of randomInts: set and src after it
MoveKth(set, src, setCount, j) ==
    IF j = 0 THEN [set |-> set, src |-> src, setCount |-> setCount]
    ELSE [set |-> [set EXCEPT ![setCount + 1] = src[j]],
          src |-> [src EXCEPT ![j] = -1],
          setCount |-> setCount + 1]

\* mutant of RandomIntsLoop: the last entry left is placed without a draw
RECURSIVE RandomIntsLoopSkipLast(_, _, _, _, _, _, _)
RandomIntsLoopSkipLast(n, set, src, mm, setCount, s, draws) ==
    IF mm = 1
    THEN [seed |-> s,
          ret |-> MoveKth(set, src, setCount, FindKth(src, 0, 1, 0)).set,
          err |-> Ok, draws |-> draws]
    ELSE Eval(nextRange_(s, mm), LAMBDA d :
             IF d.err # Ok
             THEN [seed |-> d.seed, ret |-> None, err |-> d.err, draws |-> draws]
             ELSE Eval2(MoveKth(set, src, setCount, FindKth(src, d.ret, 1, 0)),
                        draws \o <<mm>>, LAMBDA nx, drawn :
                      RandomIntsLoopSkipLast(n, nx.set, nx.src, mm - 1,
                                             nx.setCount, d.seed, drawn)))

\* the do-while loop of randomInts, from its state before a pass
RECURSIVE RandomIntsLoop(_, _, _, _, _, _, _)
RandomIntsLoop(n, set, src, mm, setCount, s, draws) ==
    Eval(nextRange_(s, mm), LAMBDA d :
        IF d.err # Ok
        THEN [seed |-> d.seed, ret |-> None, err |-> d.err, draws |-> draws]
        ELSE Eval2(MoveKth(set, src, setCount, FindKth(src, d.ret, 1, 0)),
                   draws \o <<mm>>, LAMBDA nx, drawn :
                 IF nx.set[n] < 0
                 THEN RandomIntsLoop(n, nx.set, nx.src, mm - 1, nx.setCount,
                                     d.seed, drawn)
                 ELSE [seed |-> d.seed, ret |-> nx.set, err |-> Ok,
                       draws |-> drawn]))

\* new Array(n) throws a RangeError for a negative n
randomInts(s, n) ==
    IF n < 0
    THEN [seed |-> s, ret |-> None, err |-> "RangeError: Invalid array length",
          draws |-> << >>]
    ELSE RandomIntsLoop(n, [i \in 1..n |-> -1], [i \in 1..n |-> i - 1], n, 0,
                        s, << >>)

\* mutant of setSeed: the seed is brought into range as the constructor does
setSeedNormalizing(s, x) ==
    LET y   == RemM(MathFloor(MathAbs(x)))
        chk == checkSeed(y)
    IN  [seed |-> IF chk = Ok THEN y ELSE s, ret |-> None, err |-> chk,
         draws |-> << >>]

\* mutant of setSeed: the checked value is stored in a field other than seed_
setSeedOtherField(s, x) ==
    LET chk == checkSeed(x)
    IN  [seed |-> s, ret |-> None, err |-> chk, draws |-> << >>]

setSeed(s, x) ==
    LET chk == checkSeed(x)
    IN  [seed |-> IF chk = Ok THEN x ELSE s, ret |-> None, err |-> chk,
         draws |-> << >>]

getSeed(s) == [seed |-> s, ret |-> s, err |-> Ok, draws |-> << >>]

getModulus(s) == [seed |-> s, ret |-> IntNum(m), err |-> Ok, draws |-> << >>]

----------------------------------------------------------------------------
(* One engine and the calls made on it.                                     *)

\* calls made on the engine in one behaviour
MaxSteps == 2

\* the largest n given to nextRange and randomInts
MaxN == 4

\* goog.now(): milliseconds since 1970, well above m, at two times a
\* second apart
NowValues ==
    {IntNum(<<0, 104, 229, 207, 139, 1>>), IntNum(<<232, 107, 229, 207, 139, 1>>)}

\* undefined, 0, 5, -3, 7.5, -2.5, m + 5, m - 1, NaN, Infinity, -Infinity
CtorArgs ==
    {Undefined, IntNum(<< >>), IntNum(<<5>>), Fin(TRUE, <<3>>, FALSE),
     Fin(FALSE, <<7>>, TRUE), Fin(TRUE, <<2>>, TRUE), IntNum(Add(m, <<5>>)),
     IntNum(Sub(m, <<1>>)), NaN, Inf(FALSE), Inf(TRUE)}

\* 0, 77, 220874656, m - 1, m, -1, 3.5, NaN, Infinity
SetSeedArgs ==
    {IntNum(<< >>), IntNum(<<77>>), IntNum(FromInt(220874656)),
     IntNum(Sub(m, <<1>>)), IntNum(m),
     Fin(TRUE, <<1>>, FALSE), Fin(FALSE, <<3>>, TRUE), NaN, Inf(FALSE)}

RangeArgs == (-1)..MaxN

\* arguments of nextRange whose product with a draw can pass 2^53
LargeRangeArgs == {10000001, 396091354, 2147483647}

NoCall == [op |-> "new", n |-> 0, x |-> NaN, prev |-> NaN, ret |-> None,
           err |-> Ok, draws |-> << >>]

NoEngines == << >>

NoWalk == [on |-> FALSE, bits |-> 0, s0 |-> 0, cur |-> 0, cnt |-> 0, seen |-> {}]

NoComp == [on |-> FALSE, lev |-> 0, A |-> << >>, C |-> << >>]

Init ==
    \E arg \in CtorArgs, now \in NowValues :
        \E made \in {RandomLCG(arg, now)} :
            /\ seed = made.seed
            /\ alive = (made.err = Ok)
            /\ ctorArg = arg
            /\ steps = 0
            /\ last = [NoCall EXCEPT !.x = arg, !.err = made.err]
            /\ engines = NoEngines
            /\ script = << >>
            /\ outs = << >>
            /\ walk = NoWalk
            /\ comp = NoComp

\* a call can be made on an engine that exists
CanCall == alive /\ steps < MaxSteps

\* the engine after a call with outcome res: a call that throws returns nothing
Called(op, n, x, res) ==
    /\ steps' = steps + 1
    /\ seed' = res.seed
    /\ last' = [op |-> op, n |-> n, x |-> x, prev |-> seed,
                ret |-> IF res.err = Ok THEN res.ret ELSE None,
                err |-> res.err, draws |-> res.draws]
    /\ UNCHANGED <<alive, ctorArg, engines, script, outs, walk, comp>>

NextInt ==
    /\ CanCall
    /\ \E res \in {nextInt(seed)} : Called("nextInt", 0, NaN, res)

NextFloat ==
    /\ CanCall
    /\ \E res \in {nextFloat(seed)} : Called("nextFloat", 0, NaN, res)

NextRange ==
    /\ CanCall
    /\ \E n \in RangeArgs \cup LargeRangeArgs : \E res \in {nextRange(seed, n)} :
           Called("nextRange", n, NaN, res)

RandomInts ==
    /\ CanCall
    /\ \E n \in RangeArgs : \E res \in {randomInts(seed, n)} :
           Called("randomInts", n, NaN, res)

SetSeed ==
    /\ CanCall
    /\ \E x \in SetSeedArgs : \E res \in {setSeed(seed, x)} :
           Called("setSeed", 0, x, res)

GetSeed ==
    /\ CanCall
    /\ \E res \in {getSeed(seed)} : Called("getSeed", 0, NaN, res)

GetModulus ==
    /\ CanCall
    /\ \E res \in {getModulus(seed)} : Called("getModulus", 0, NaN, res)

Next ==
    \/ NextInt
    \/ NextFloat
    \/ NextRange
    \/ RandomInts
    \/ SetSeed
    \/ GetSeed
    \/ GetModulus

Spec == Init /\ [][Next]_vars

----------------------------------------------------------------------------
(* Properties of the engine.                                                *)

LessEq(x, y) == ~Less(y, x)

\* s is an integer with 0 <= s < m
ValidSeed(s) ==
    /\ s.kind = "fin"
    /\ ~s.neg
    /\ ~s.half
    /\ IsNatDigits(s.mag)
    /\ Less(s.mag, m)

\* (s * a + c) mod m: the low 32 bits of the exact sum
Advance(s) == IntNum(Take(Add(Mul(s.mag, FromInt(1664525)), FromInt(1013904223)), 4))

RECURSIVE NextIntTimes(_, _)
NextIntTimes(s, k) ==
    IF k = 0 THEN s ELSE Eval(nextInt(s).seed, LAMBDA t : NextIntTimes(t, k - 1))

IsDraw(op) == op \in {"nextInt", "nextFloat", "nextRange", "randomInts"}

\* C1 as stated: the seed of every engine is an integer in [0, m) and
\* checkSeed fails neither in the constructor, whatever number it is given,
\* nor after an advance.
C1_CheckSeedNeverFails ==
    /\ alive
    /\ ValidSeed(seed)
    /\ (IsDraw(last.op) /\ last.draws # << >> => last.err = Ok)

\* C1 (amended): constructed with a finite number or with no argument, the
\* engine exists, and in every state its seed is an integer in [0, m), so
\* that checkSeed fails neither in the constructor nor after an advance;
\* constructed with NaN or an infinity, checkSeed throws in the constructor.
C1_SeedInRange ==
    /\ alive <=> (IsFinite(ctorArg) \/ ctorArg = Undefined)
    /\ alive => ValidSeed(seed) /\ checkSeed(seed) = Ok
    /\ ~alive => steps = 0 /\ last.err # Ok
    /\ (IsDraw(last.op) /\ last.draws # << >> => last.err = Ok)

C1_Witness ==
    /\ alive
    /\ ctorArg = Fin(TRUE, <<2>>, TRUE)
    /\ steps = 2
    /\ last.op = "randomInts"
    /\ last.n = 3
    /\ last.err = Ok

\* C2: nextInt() sets the seed to r - floor(r/m)*m with r = s*a + c, which
\* is (s*a + c) mod m, and returns the new seed; from seed 0 the first two
\* results are 1013904223 and 1196435762.
C2_NextInt ==
    last.op = "nextInt" =>
        LET r == Add(Mul(last.prev.mag, FromInt(1664525)), FromInt(1013904223))
            q == Drop(r, 4)
        IN  /\ last.err = Ok
            /\ seed.mag = Sub(r, Mul(q, m))
            /\ Add(Mul(q, m), seed.mag) = r
            /\ Less(seed.mag, m)
            /\ seed = Advance(last.prev)
            /\ last.ret = seed
            /\ getSeed(seed).ret = last.ret
            /\ (last.prev = IntNum(<< >>) => last.ret = IntNum(FromInt(1013904223)))
            /\ (last.prev = IntNum(FromInt(1013904223))
                    => last.ret = IntNum(FromInt(1196435762)))

C2_Witness ==
    /\ ctorArg = IntNum(<< >>)
    /\ steps = 2
    /\ last.op = "nextInt"
    /\ last.prev = IntNum(FromInt(1013904223))
    /\ last.ret = IntNum(<<50, 41, 80, 71>>)

\* C3: for n >= 1, randomInts(n) returns a sequence of length n in which
\* every value of 0..n-1 appears exactly once and no entry is -1.
C3_Permutation ==
    (last.op = "randomInts" /\ last.n >= 1) =>
        /\ last.err = Ok
        /\ Len(last.ret) = last.n
        /\ \A i \in 1..last.n : last.ret[i] \in 0..(last.n - 1)
        /\ \A v \in 0..(last.n - 1) :
               Cardinality({i \in 1..last.n : last.ret[i] = v}) = 1

C3_Witness ==
    /\ last.op = "randomInts"
    /\ last.n = 4
    /\ last.err = Ok
    /\ last.ret[1] > last.ret[2]
    /\ last.ret[4] # 3

\* C4 as stated: randomInts(0) returns the empty sequence without an error,
\* and randomInts(1) returns <<0>>.
C4_EmptyAndSingle ==
    last.op = "randomInts" =>
        /\ (last.n = 0 => last.err = Ok /\ last.ret = << >>)
        /\ (last.n = 1 => last.err = Ok /\ last.ret = <<0>>)

\* C5 as stated: for every integer n >= 1, nextRange(n) makes one draw raw
\* and returns the integer floor(raw * n / m), which is in [0, n); for
\* n <= 0 it throws.
C5_NextRange ==
    last.op = "nextRange" =>
        /\ (last.n <= 0 => last.err # Ok /\ last.ret = None)
        /\ (last.n >= 1 =>
               LET raw  == Advance(last.prev).mag
                   prod == Mul(raw, FromInt(last.n))
               IN  /\ last.err = Ok
                   /\ seed.mag = raw
                   /\ last.ret \in 0..(last.n - 1)
                   /\ LessEq(Mul(FromInt(last.ret), m), prod)
                   /\ Less(prod, Mul(FromInt(last.ret + 1), m)))

\* C6: setSeed(s) succeeds exactly when s is an integer with 0 <= s < m and
\* then getSeed() returns s as given; -1, m and 3.5 are refused, and a
\* refused s is never clamped or reduced into the seed.
C6_SetSeedStrict ==
    last.op = "setSeed" =>
        /\ (last.err = Ok) <=> ValidSeed(last.x)
        /\ (last.err = Ok => seed = last.x /\ getSeed(seed).ret = last.x)
        /\ (last.err # Ok => seed = last.prev)
        /\ (last.x \in {Fin(TRUE, <<1>>, FALSE), IntNum(<<0, 0, 0, 0, 1>>),
                        Fin(FALSE, <<3>>, TRUE)} => last.err # Ok)

C6_Witness ==
    /\ last.op = "setSeed"
    /\ last.x = IntNum(<<0, 0, 0, 0, 1>>)
    /\ last.err # Ok
    /\ last.prev # IntNum(<< >>)
    /\ seed = last.prev

\* C9: a call that throws leaves the seed as it was; getSeed and getModulus
\* leave it as it was; a call that returns has made its whole transition.
C9_NoPartialFailure ==
    /\ (last.op # "new" /\ last.err # Ok => seed = last.prev)
    /\ (last.op \in {"getSeed", "getModulus"} => last.err = Ok /\ seed = last.prev)
    /\ (last.op \in {"nextInt", "nextFloat"} /\ last.err = Ok
            => seed = Advance(last.prev))
    /\ (last.op = "nextRange" /\ last.err = Ok => seed = Advance(last.prev))
    /\ (last.op = "randomInts" /\ last.err = Ok
            => seed = NextIntTimes(last.prev, last.n) /\ Len(last.ret) = last.n)
    /\ (last.op = "setSeed" /\ last.err = Ok => seed = last.x)

C9_Witness ==
    /\ last.op = "nextRange"
    /\ last.n = 0
    /\ last.err # Ok
    /\ steps = 2
    /\ seed = last.prev
    /\ seed = IntNum(FromInt(1013904223))

\* C10: nextInt, nextFloat and nextRange(n) advance the seed once, and
\* randomInts(n) advances it n times, its k'th draw being nextRange(n-k+1),
\* so that it leaves the seed n calls of nextInt leave.
C10_AdvanceCounts ==
    /\ (last.op \in {"nextInt", "nextFloat"} =>
            seed = Advance(last.prev) /\ last.draws = <<0>>)
    /\ (last.op = "nextRange" /\ last.err = Ok =>
            seed = Advance(last.prev) /\ last.draws = <<last.n>>)
    /\ (last.op = "randomInts" /\ last.err = Ok =>
            /\ seed = NextIntTimes(last.prev, last.n)
            /\ last.draws = [k \in 1..last.n |-> last.n - k + 1])
    /\ (last.op = "nextFloat" =>
            last.ret = [num |-> seed.mag, den |-> <<255, 255, 255, 255>>])

C10_Witness ==
    /\ last.op = "randomInts"
    /\ last.err = Ok
    /\ last.n = 3
    /\ last.draws = <<3, 2, 1>>
    /\ seed = Advance(Advance(Advance(last.prev)))

----------------------------------------------------------------------------
(* Two engines driven with the same calls.  Each engine has its own seed_   *)
(* (an instance field) and is constructed on its own, with its own argument *)
(* and its own reading of the clock; before the common calls begin an       *)
(* engine may make a call of its own.  Then each call is made by one engine *)
(* and after it by the other, either engine going first.                    *)

\* calls in the script driving the two engines
MaxCalls == 3

Engines == {1, 2}

\* the first engine is given 0 or 5, the second 0 or undefined
DetCtorArgs == <<{IntNum(<< >>), IntNum(<<5>>)}, {IntNum(<< >>), Undefined}>>

DetCalls ==
    {[op |-> "nextInt", n |-> 0, x |-> NaN],
     [op |-> "nextFloat", n |-> 0, x |-> NaN],
     [op |-> "getSeed", n |-> 0, x |-> NaN],
     [op |-> "nextRange", n |-> 3, x |-> NaN]}
    \cup {[op |-> "randomInts", n |-> 3, x |-> NaN]}
    \cup {[op |-> "setSeed", n |-> 0, x |-> x] : x \in {IntNum(<<77>>), IntNum(m)}}

\* the method a call names, on an engine whose seed_ is s
Apply(call, s) ==
    CASE call.op = "nextInt"    -> nextInt(s)
      [] call.op = "nextFloat"  -> nextFloat(s)
      [] call.op = "nextRange"  -> nextRange(s, call.n)
      [] call.op = "randomInts" -> randomInts(s, call.n)
      [] call.op = "setSeed"    -> setSeed(s, call.x)
      [] call.op = "getSeed"    -> getSeed(s)
      [] OTHER                  -> getModulus(s)

\* this.seed_ = v on engine e
Store(engs, e, v) == [engs EXCEPT ![e].seed = v]

\* new RandomLCG(a1) and new RandomLCG(a2), each at its own time
InitDet ==
    /\ \E a1 \in DetCtorArgs[1], a2 \in DetCtorArgs[2], now1, now2 \in NowValues :
           \E e1 \in {RandomLCG(a1, now1)}, e2 \in {RandomLCG(a2, now2)} :
               /\ e1.err = Ok
               /\ e2.err = Ok
               /\ engines = <<[seed |-> e1.seed, arg |-> a1, own |-> FALSE],
                              [seed |-> e2.seed, arg |-> a2, own |-> FALSE]>>
    /\ script = << >>
    /\ outs = << << >>, << >> >>
    /\ seed = NaN
    /\ alive = FALSE
    /\ ctorArg = Undefined
    /\ steps = 0
    /\ last = NoCall
    /\ walk = NoWalk
    /\ comp = NoComp

\* before the common calls, the second engine makes a nextInt call of its own
Alone ==
    /\ script = << >>
    /\ ~engines[2].own
    /\ \E res \in {nextInt(engines[2].seed)} :
           engines' = [Store(engines, 2, res.seed) EXCEPT ![2].own = TRUE]
    /\ UNCHANGED <<seed, alive, ctorArg, steps, last, script, outs, walk, comp>>

\* engine e makes the call and keeps what came of it
Run(e, call) ==
    \E res \in {Apply(call, engines[e].seed)} :
        /\ engines' = Store(engines, e, res.seed)
        /\ outs' = [outs EXCEPT ![e] =
                        Append(@, [ret  |-> IF res.err = Ok THEN res.ret ELSE None,
                                   err  |-> res.err,
                                   seed |-> res.seed])]
        /\ UNCHANGED <<seed, alive, ctorArg, steps, last, walk, comp>>

\* when both engines have made every call so far, one of them makes a new
\* call
Lead ==
    \E e \in Engines, call \in DetCalls :
        /\ \A f \in Engines : Len(outs[f]) = Len(script)
        /\ Len(script) < MaxCalls
        /\ script' = Append(script, call)
        /\ Run(e, call)

\* the engine behind makes the call the other has made already
Follow ==
    \E e \in Engines :
        /\ Len(outs[e]) < Len(script)
        /\ script' = script
        /\ Run(e, script[Len(outs[e]) + 1])

NextDet == Alone \/ Lead \/ Follow

SpecDet == InitDet /\ [][NextDet]_vars

Min(i, j) == IF i < j THEN i ELSE j

\* the engines start from the same seed at place k of the script: at 0,
\* when they were constructed with the same explicit seed and neither has
\* made a call of its own; at k >= 1, when call k is setSeed with a value
\* that is an integer in [0, m)
SameStart(k) ==
    IF k = 0
    THEN /\ engines[1].arg = engines[2].arg
         /\ engines[1].arg.kind # "undef"
         /\ ~engines[1].own
         /\ ~engines[2].own
    ELSE /\ script[k].op = "setSeed"
         /\ ValidSeed(script[k].x)

\* C7: two engines that start from the same seed, by construction with the
\* same explicit seed or by setSeed with the same value, and are driven by
\* the same calls from there on, return the same values, throw at the same
\* calls and hold the same seed after every call.
C7_Determinism ==
    \A k \in 0..Len(script) :
        SameStart(k) =>
            /\ \A i \in 1..Min(Len(outs[1]), Len(outs[2])) :
                   i >= k =>
                       /\ outs[1][i].err = outs[2][i].err
                       /\ outs[1][i].seed = outs[2][i].seed
                       /\ outs[1][i].ret = outs[2][i].ret
            /\ (Len(outs[1]) = Len(outs[2]) /\ Len(outs[1]) >= k
                    => engines[1].seed = engines[2].seed)

\* engines constructed with 5 and with the clock, the second having made a
\* call of its own, differ on nextInt, are both given setSeed(77) and then
\* agree on randomInts(3)
C7_Witness ==
    /\ engines[1].arg = IntNum(<<5>>)
    /\ engines[2].arg = Undefined
    /\ engines[2].own
    /\ Len(script) = 3
    /\ Len(outs[1]) = 3
    /\ Len(outs[2]) = 3
    /\ script[1].op = "nextInt"
    /\ outs[1][1].ret # outs[2][1].ret
    /\ script[2] = [op |-> "setSeed", n |-> 0, x |-> IntNum(<<77>>)]
    /\ outs[1][2].err = Ok
    /\ script[3].op = "randomInts"
    /\ outs[1][3].err = Ok
    /\ outs[1][3].ret = outs[2][3].ret
    /\ engines[1].seed = engines[2].seed

----------------------------------------------------------------------------
(* The period of the generator.                                             *)

\* the reduced moduli are 2^1 .. 2^RedBits
RedBits == 7

\* the composed map is compared with the calls themselves up to 2^ProbeLev
ProbeLev == 5

ProbeSeeds == {IntNum(<< >>), IntNum(<<5>>), IntNum(Sub(m, <<1>>))}

\* the number of bits of m
LogM == 8 * mDigits

\* mutant of RedNextInt: the increment is left out
RedNextIntNoIncrement(s, mm) ==
    LET r == s * a
    IN  r - (r \div mm) * mm

\* nextInt_ with the modulus mm in the place of m
RedNextInt(s, mm) ==
    LET r == s * a + c
    IN  r - (r \div mm) * mm

\* two runs of the map s |-> A*s + C mod m, one after the other
Twice(f) ==
    [f EXCEPT !.lev = @ + 1,
              !.A = Take(Mul(f.A, f.A), mDigits),
              !.C = Take(Mul(f.C, Add(f.A, <<1>>)), mDigits)]

\* the map s |-> A*s + C mod m at the seed s
MapAt(f, s) == IntNum(Take(Add(Mul(f.A, s.mag), f.C), mDigits))

InitPeriod ==
    /\ \/ /\ \E bits \in 1..RedBits : \E s0 \in 0..(2^bits - 1) :
                 walk = [on |-> TRUE, bits |-> bits, s0 |-> s0, cur |-> s0,
                         cnt |-> 0, seen |-> {s0}]
          /\ comp = NoComp
       \/ /\ walk = NoWalk
          /\ comp = [on |-> TRUE, lev |-> 0, A |-> aNum, C |-> cNum]
    /\ seed = NaN
    /\ alive = FALSE
    /\ ctorArg = Undefined
    /\ steps = 0
    /\ last = NoCall
    /\ engines = NoEngines
    /\ script = << >>
    /\ outs = << >>

\* one call of nextInt on the reduced generator
WalkStep ==
    /\ walk.on
    /\ walk.cnt < 2^walk.bits
    /\ \E nx \in {RedNextInt(walk.cur, 2^walk.bits)} :
           walk' = [walk EXCEPT !.cur = nx, !.cnt = @ + 1,
                                !.seen = IF walk.cnt + 1 < 2^walk.bits
                                         THEN @ \cup {nx} ELSE @]
    /\ UNCHANGED <<seed, alive, ctorArg, steps, last, engines, script, outs, comp>>

\* twice as many calls of nextInt on the engine, as one map
Double ==
    /\ comp.on
    /\ comp.lev < LogM
    /\ comp' = Twice(comp)
    /\ UNCHANGED <<seed, alive, ctorArg, steps, last, engines, script, outs, walk>>

NextPeriod == WalkStep \/ Double

SpecPeriod == InitPeriod /\ [][NextPeriod]_vars

\* C8: from any seed s the generator comes back to s after m calls of
\* nextInt and not before, having been at every value of [0, m).  For the
\* moduli 2^1 .. 2^RedBits the calls are made one by one.  For m = 2^32 the
\* map of 2^lev calls is s |-> A*s + C mod m (it agrees with the calls made
\* one by one up to 2^ProbeLev of them); 2^31 calls add 2^31 to every seed,
\* so that no seed is back after a number of calls that divides 2^31, and
\* 2^32 calls are the identity.
C8_FullPeriod ==
    /\ walk.on =>
           /\ walk.cur \in 0..(2^walk.bits - 1)
           /\ (walk.cnt \in 1..(2^walk.bits - 1) => walk.cur # walk.s0)
           /\ Cardinality(walk.seen) = Min(walk.cnt + 1, 2^walk.bits)
           /\ (walk.cnt = 2^walk.bits =>
                   walk.cur = walk.s0 /\ walk.seen = 0..(2^walk.bits - 1))
    /\ comp.on =>
           /\ (comp.lev <= ProbeLev =>
                   \A s \in ProbeSeeds :
                       NextIntTimes(s, 2^comp.lev) = MapAt(comp, s))
           /\ (comp.lev < 32 => ~(comp.A = <<1>> /\ comp.C = << >>))
           /\ (comp.lev = 31 => comp.A = <<1>> /\ comp.C = <<0, 0, 0, 128>>)
           /\ (comp.lev = 32 => comp.A = <<1>> /\ comp.C = << >>)

C8_Witness ==
    /\ comp.on
    /\ comp.lev = 32
    /\ comp.A = <<1>>
    /\ comp.C = << >>

====
